---------------------------- MODULE Spec2Model ----------------------------
(* A model of the SheetQL session (src/sheet_ql.py): the DuckDB catalog of  *)
(* views, the schema cache, the staged results, the session recorder and    *)
(* the batch-script engine, with one action per user-level command.         *)
EXTENDS Naturals, Sequences, FiniteSets, TLC

(***************************************************************************)
(* Strings.  Python's str operations used by the code, computed character  *)
(* by character.                                                            *)
(***************************************************************************)
LowerLetters == "abcdefghijklmnopqrstuvwxyz"
UpperLetters == "ABCDEFGHIJKLMNOPQRSTUVWXYZ"
Digits == "0123456789"

CharAt(s, i) == SubSeq(s, i, i)

CharsOf(s) == { CharAt(s, i) : i \in 1..Len(s) }

\* the class [a-zA-Z0-9_] of the regular expression in _load_data
WordChars == CharsOf(LowerLetters \o UpperLetters \o Digits \o "_")

UpperChars == CharsOf(UpperLetters)

LowerChars == CharsOf(LowerLetters)

\* str.lower() on one character
LowerChar(c) ==
    IF c \in UpperChars
    THEN CharAt(LowerLetters, CHOOSE i \in 1..Len(UpperLetters) : CharAt(UpperLetters, i) = c)
    ELSE c

RECURSIVE LowerFrom(_, _)
LowerFrom(s, i) ==
    IF i > Len(s) THEN "" ELSE LowerChar(CharAt(s, i)) \o LowerFrom(s, i + 1)

\* str.lower(): a string without an upper-case letter is its own lower case
Lower(s) == IF \A i \in 1..Len(s) : CharAt(s, i) \notin UpperChars THEN s ELSE LowerFrom(s, 1)

\* str.rfind(c), 1-based, 0 when absent
RFind(s, c) ==
    LET hits == { i \in 1..Len(s) : CharAt(s, i) = c }
    IN IF hits = {} THEN 0 ELSE CHOOSE i \in hits : \A j \in hits : j <= i

\* str.find(c), 1-based, 0 when absent
Find(s, c) ==
    LET hits == { i \in 1..Len(s) : CharAt(s, i) = c }
    IN IF hits = {} THEN 0 ELSE CHOOSE i \in hits : \A j \in hits : i <= j

\* os.path.basename(p)
Basename(p) == SubSeq(p, RFind(p, "/") + 1, Len(p))

\* the position of the extension dot found by os.path.splitext(p): the last
\* dot, when it lies after the last separator and after a character of the
\* file name that is not a dot; 0 when the path has no extension
ExtDot(p) ==
    LET sep == RFind(p, "/")
        dot == RFind(p, ".")
    IN IF dot > sep /\ \E k \in (sep + 1)..(dot - 1) : CharAt(p, k) # "."
       THEN dot ELSE 0

\* os.path.splitext(p)[0]
SplitextRoot(p) == IF ExtDot(p) = 0 THEN p ELSE SubSeq(p, 1, ExtDot(p) - 1)

\* os.path.splitext(p)[1]
SplitextExt(p) == IF ExtDot(p) = 0 THEN "" ELSE SubSeq(p, ExtDot(p), Len(p))

RECURSIVE SanitizeFrom(_, _, _)
SanitizeFrom(s, i, inRun) ==
    IF i > Len(s) THEN ""
    ELSE IF CharAt(s, i) \in WordChars
         THEN CharAt(s, i) \o SanitizeFrom(s, i + 1, FALSE)
         ELSE (IF inRun THEN "" ELSE "_") \o SanitizeFrom(s, i + 1, TRUE)

\* re.sub(r"[^a-zA-Z0-9_]+", "_", s)
Sanitize(s) == SanitizeFrom(s, 1, FALSE)

\* s.split(".")[0]
SplitDot0(s) == IF Find(s, ".") = 0 THEN s ELSE SubSeq(s, 1, Find(s, ".") - 1)

\* sub in s
Contains(sub, s) ==
    \E i \in 0..Len(s) :
        /\ i + Len(sub) <= Len(s)
        /\ SubSeq(s, i + 1, i + Len(sub)) = sub

\* s.startswith(pre)
StartsWith(s, pre) == Len(pre) <= Len(s) /\ SubSeq(s, 1, Len(pre)) = pre


(***************************************************************************)
(* Sequences and finite maps.                                              *)
(***************************************************************************)
\* dict[k] = v
Put(f, k, v) == [x \in (DOMAIN f) \cup {k} |-> IF x = k THEN v ELSE f[x]]

\* del dict[k] / dict.pop(k)
Drop(f, k) == [x \in (DOMAIN f) \ {k} |-> f[x]]

EmptyMap == [x \in {} |-> x]

Range(s) == { s[i] : i \in 1..Len(s) }

(***************************************************************************)
(* The files on disk.  A path that is not listed does not exist; a listed  *)
(* file holds one table (its ordered columns) or, for a spreadsheet, one   *)
(* table per sheet.                                                         *)
(***************************************************************************)
Paths == {"a.csv", "d/a.csv", "ab.csv", "a-b.csv", "m.csv", "a.txt", "b.xlsx", "1.xlsx"}

ExistingPaths == Paths \ {"m.csv"}

\* the columns read_csv_auto / read_json_auto find in a single-table file
FileColumns(p) ==
    CASE p = "a.csv" -> <<"ID", "Name">>
      [] p = "d/a.csv" -> <<"ID", "Value">>
      [] p = "ab.csv" -> <<"K">>
      [] p = "a-b.csv" -> <<"V">>
      [] OTHER -> <<"c">>

\* xls.sheet_names and the columns of each sheet
FileSheets(p) ==
    IF p = "b.xlsx"
    THEN << [sheet |-> "S1", cols |-> <<"City">>],
            [sheet |-> "S 2", cols |-> <<"Pop ulation">>] >>
    ELSE IF p = "1.xlsx"
    THEN << [sheet |-> "S1", cols |-> <<"City">>] >>
    ELSE << >>

(***************************************************************************)
(* The query engine (DuckDB connection).  The catalog maps the stored name *)
(* of each view to what it shows; names are looked up without regard to    *)
(* case.                                                                    *)
(***************************************************************************)
View(p, sh, cols) == [path |-> p, sheet |-> sh, cols |-> cols]

\* the catalog entries an identifier resolves to (at most one)
Resolve(reg, n) == LET ln == Lower(n) IN { k \in DOMAIN reg : Lower(k) = ln }

Exists(reg, n) == Resolve(reg, n) # {}

Entry(reg, n) == CHOOSE k \in Resolve(reg, n) : TRUE

\* whether the parser reads n as one unquoted identifier
IdentOK(n) ==
    /\ Len(n) > 0
    /\ CharAt(n, 1) \notin CharsOf(Digits)
    /\ CharsOf(n) \subseteq WordChars

\* CREATE OR REPLACE VIEW n AS ... / register(n, df)
CreateOrReplace(reg, n, v) ==
    LET rest == [k \in (DOMAIN reg) \ Resolve(reg, n) |-> reg[k]]
    IN Put(rest, n, v)

\* whether ALTER VIEW "old" RENAME TO "new" succeeds
RenameOK(reg, old, new) ==
    /\ Len(old) > 0 /\ Len(new) > 0
    /\ Exists(reg, old)
    /\ ~Exists(reg, new)

\* the catalog after a successful ALTER VIEW "old" RENAME TO "new"
Renamed(reg, old, new) ==
    LET k == Entry(reg, old) IN Put(Drop(reg, k), new, reg[k])

\* DESCRIBE n: the ordered column names
Describe(reg, n) == reg[Entry(reg, n)].cols

DescribeOK(reg, n) == IdentOK(n) /\ Exists(reg, n)

(***************************************************************************)
(* SessionRecorder                                                          *)
(***************************************************************************)
NewRecorder == [inputs |-> << >>, transformations |-> << >>, exports |-> << >>]

\* SessionRecorder.record_load
record_load(rec, path, alias) ==
    [rec EXCEPT !.inputs = Append(@, [path |-> path, alias |-> alias])]

(***************************************************************************)
(* The Loader                                                               *)
(***************************************************************************)
\* str(c).strip() of a column header: leading and trailing blanks removed
RECURSIVE Strip(_)
Strip(s) ==
    IF Len(s) > 0 /\ CharAt(s, 1) = " " THEN Strip(Tail(s))
    ELSE IF Len(s) > 0 /\ CharAt(s, Len(s)) = " " THEN Strip(SubSeq(s, 1, Len(s) - 1))
    ELSE s

\* the column names of a sheet as _load_data rewrites them
SheetColumns(cols) == [i \in 1..Len(cols) |-> Lower(Sanitize(Strip(cols[i])))]

\* the sanitized base name of a path
BaseOf(p) == Sanitize(SplitextRoot(Basename(p)))

\* the lower-cased extension of a path
ExtOf(p) == Lower(SplitextExt(p))

\* the format suffix of a single-table extension, "" for the others
SuffixOf(ext) ==
    CASE ext = ".parquet" -> "_parquet"
      [] ext = ".csv" -> "_csv"
      [] ext \in {".json", ".jsonl"} -> "_json"
      [] OTHER -> ""

\* the name _load_data gives the table of one sheet
SheetTable(p, sheet) == BaseOf(p) \o "_" \o Lower(Sanitize(sheet))

\* _update_schema_cache: the cache after describing each table of the list
RECURSIVE UpdateSchemaCache(_, _, _)
UpdateSchemaCache(reg, cache, tables) ==
    IF tables = << >> THEN cache
    ELSE LET t == Head(tables)
             c == IF DescribeOK(reg, t) THEN Put(cache, t, Describe(reg, t)) ELSE cache
         IN UpdateSchemaCache(reg, c, Tail(tables))

\* one sheet of a workbook: register its frame as t, append and record t
LoadSheet(st, p, sh, t) ==
    [st EXCEPT
        !.reg = CreateOrReplace(@, t, View(p, sh.sheet, SheetColumns(sh.cols))),
        !.loaded = Append(@, t),
        !.rec = record_load(@, p, t),
        !.calls = Append(@, [op |-> "register", name |-> t, path |-> p, ok |-> TRUE])]

\* the sheets loop of _load_data
RECURSIVE LoadSheets(_, _, _)
LoadSheets(st, p, sheets) ==
    IF sheets = << >> THEN st
    ELSE LoadSheets(LoadSheet(st, p, Head(sheets), SheetTable(p, Head(sheets).sheet)),
                    p, Tail(sheets))

\* the call _update_schema_cache(loaded_tables)
Described(st) == [st EXCEPT !.cache = UpdateSchemaCache(st.reg, @, st.loaded)]

\* a file of a single-table format: CREATE OR REPLACE VIEW t over the file
LoadView(st, p, t) ==
    IF p \in ExistingPaths /\ IdentOK(t)
    THEN [st EXCEPT
            !.reg = CreateOrReplace(@, t, View(p, "", FileColumns(p))),
            !.loaded = Append(@, t),
            !.rec = record_load(@, p, t),
            !.calls = Append(@, [op |-> "create", name |-> t, path |-> p, ok |-> TRUE])]
    ELSE [st EXCEPT
            !.calls = Append(@, [op |-> "create", name |-> t, path |-> p, ok |-> FALSE]),
            !.log = Append(@, [level |-> "error", what |-> "load", item |-> p])]

\* the branches of _load_data on the extension of the path
LoadByExt(st, p, ext) ==
    IF SuffixOf(ext) # ""
    THEN LoadView(st, p, BaseOf(p) \o SuffixOf(ext))
    ELSE IF ext \in {".xlsx", ".xls"}
    THEN IF p \in ExistingPaths
         THEN Described(LoadSheets(st, p, FileSheets(p)))
         ELSE [st EXCEPT !.log = Append(@, [level |-> "error", what |-> "load", item |-> p])]
    ELSE [st EXCEPT !.log = Append(@, [level |-> "warning", what |-> "unsupported", item |-> ext])]

\* one iteration of the loop over file_paths in _load_data
LoadOne(st, p) == LoadByExt(st, p, ExtOf(p))

\* a faulty variant of LoadAll: the first path that creates no table ends the batch
RECURSIVE LoadAllAbortOnFailure(_, _)
LoadAllAbortOnFailure(st, paths) ==
    IF paths = << >> THEN st
    ELSE LET s1 == LoadOne(st, Head(paths))
         IN IF s1.loaded = st.loaded THEN s1 ELSE LoadAllAbortOnFailure(s1, Tail(paths))

\* the loop over file_paths in _load_data
RECURSIVE LoadAll(_, _)
LoadAll(st, paths) ==
    IF paths = << >> THEN st ELSE LoadAll(LoadOne(st, Head(paths)), Tail(paths))

\* _load_data(file_paths): the session after the call; .loaded is its result
LoadData(st, paths) == Described(LoadAll([st EXCEPT !.loaded = << >>], paths))

(***************************************************************************)
(* Queries.  The engine runs "SELECT * FROM <table>" against the catalog;  *)
(* any other text, or a table that does not resolve, is an engine error.   *)
(***************************************************************************)
\* str.upper() on one character
UpperChar(c) ==
    IF c \in LowerChars
    THEN CharAt(UpperLetters, CHOOSE i \in 1..Len(LowerLetters) : CharAt(LowerLetters, i) = c)
    ELSE c

RECURSIVE UpperFrom(_, _)
UpperFrom(s, i) ==
    IF i > Len(s) THEN "" ELSE UpperChar(CharAt(s, i)) \o UpperFrom(s, i + 1)

\* str.upper()
Upper(s) == UpperFrom(s, 1)

SelectFrom == "SELECT * FROM "

\* the query text without a trailing semicolon
Unterminated(sql) ==
    IF Len(sql) > 0 /\ CharAt(sql, Len(sql)) = ";" THEN SubSeq(sql, 1, Len(sql) - 1) ELSE sql

\* the table a query reads
QueryTable(sql) == SubSeq(Unterminated(sql), Len(SelectFrom) + 1, Len(Unterminated(sql)))

\* whether the statement lists the tables: keywords are read without regard
\* to case and blanks around the statement are skipped
IsShowTables(sql) ==
    /\ Len(Strip(Unterminated(Strip(sql)))) = Len("SHOW TABLES")
    /\ Upper(Strip(Unterminated(Strip(sql)))) = "SHOW TABLES"

\* the frame of SHOW TABLES: one column, one row for each table
TableList == View("", "", <<"name">>)

\* whether db_connection.execute(sql).fetchdf() returns
QueryOK(reg, sql) ==
    \/ /\ StartsWith(sql, SelectFrom)
       /\ IdentOK(QueryTable(sql))
       /\ Exists(reg, QueryTable(sql))
    \/ IsShowTables(sql)

\* the frame db_connection.execute(sql).fetchdf() returns
QueryResult(reg, sql) ==
    IF IsShowTables(sql) THEN TableList ELSE reg[Entry(reg, QueryTable(sql))]

\* res.empty: the files hold rows, the table list of an empty catalog none
QueryEmpty(reg, sql) == IsShowTables(sql) /\ DOMAIN reg = {}

(***************************************************************************)
(* The spreadsheet writer                                                   *)
(***************************************************************************)
ExportPaths == {"out.xlsx", "nodir/out.xlsx"}

\* SheetQL.DEFAULT_EXPORT_FILENAME
DEFAULT_EXPORT_FILENAME == "query_result.xlsx"

\* the directories that exist; a workbook cannot be written elsewhere
WritablePaths == {"out.xlsx"}

\* whether pd.ExcelWriter writes the staged frames to the path: openpyxl
\* refuses to save a workbook without a sheet, xlsxwriter adds one
WriterOK(path, data, xlsxwriter) ==
    /\ path \in WritablePaths
    /\ (DOMAIN data # {} \/ xlsxwriter)

\* SessionRecorder.record_export
record_export(rec, path) == [rec EXCEPT !.exports = Append(@, [path |-> path])]

\* a faulty variant of SaveToExcel: the staged results are cleared whatever the writer did
SaveToExcelClearAlways(st, path, xlsxwriter) ==
    LET ok == WriterOK(path, st.stage, xlsxwriter)
    IN [st EXCEPT
          !.calls = Append(@, [op |-> "write", path |-> path, data |-> st.stage, ok |-> ok]),
          !.stage = EmptyMap]

\* _save_to_excel(save_path)
SaveToExcel(st, path, xlsxwriter) ==
    LET ok == WriterOK(path, st.stage, xlsxwriter)
        called == [st EXCEPT
                     !.calls = Append(@, [op |-> "write", path |-> path,
                                          data |-> st.stage, ok |-> ok])]
    IN IF ok
       THEN [called EXCEPT
               !.log = Append(@, [level |-> "info", what |-> "saved", item |-> Basename(path)]),
               !.rec = record_export(@, path),
               !.stage = EmptyMap]
       ELSE [called EXCEPT
               !.log = Append(@, [level |-> "error", what |-> "save", item |-> ""])]

(***************************************************************************)
(* The batch-script engine                                                  *)
(***************************************************************************)
\* whether ALTER VIEW "old" RENAME TO "new" returns in this session: a frame
\* given to register is renamed only by an engine that keeps it as a view
AlterOK(st, old, new) ==
    /\ RenameOK(st.reg, old, new)
    /\ (st.frames \/ st.reg[Entry(st.reg, old)].sheet = "")

\* why the ALTER VIEW raised
AlterError(st, old, new) ==
    IF ~Exists(st.reg, old) THEN "missing"
    ELSE IF Exists(st.reg, new) THEN "exists"
    ELSE "refused"

\* the ALTER VIEW "tbl" RENAME TO "alias" of the alias loop, its exception swallowed
AliasRename(st, tbl, alias) ==
    IF AlterOK(st, tbl, alias)
    THEN [st EXCEPT
            !.reg = Renamed(@, tbl, alias),
            !.calls = Append(@, [op |-> "rename", name |-> tbl, to |-> alias, ok |-> TRUE,
                                 err |-> ""]),
            !.log = Append(@, [level |-> "info", what |-> "aliased", item |-> tbl])]
    ELSE [st EXCEPT
            !.calls = Append(@, [op |-> "rename", name |-> tbl, to |-> alias, ok |-> FALSE,
                                 err |-> AlterError(st, tbl, alias)])]

\* dict assignment in a comprehension: a repeated key keeps its place and takes the new value
RECURSIVE SetPair(_, _, _)
SetPair(pairs, k, v) ==
    IF pairs = << >> THEN << <<k, v>> >>
    ELSE IF Head(pairs)[1] = k THEN << <<k, v>> >> \o Tail(pairs)
    ELSE << Head(pairs) >> \o SetPair(Tail(pairs), k, v)

\* alias_map: basename -> alias of the inputs that declare an alias, in dict order
RECURSIVE AliasMap(_)
AliasMap(inputs) ==
    IF inputs = << >> THEN << >>
    ELSE LET i == inputs[Len(inputs)]
             before == AliasMap(SubSeq(inputs, 1, Len(inputs) - 1))
         IN IF i.alias # "" THEN SetPair(before, Basename(i.path), i.alias) ELSE before

\* the inner loop of the alias phase: every alias whose file stem occurs in tbl
RECURSIVE AliasTable(_, _, _)
AliasTable(st, tbl, amap) ==
    IF amap = << >> THEN st
    ELSE LET fname == Head(amap)[1]
             alias == Head(amap)[2]
             s1 == IF Contains(SplitDot0(fname), tbl) THEN AliasRename(st, tbl, alias) ELSE st
         IN AliasTable(s1, tbl, Tail(amap))

\* the outer loop of the alias phase, over the loaded tables
RECURSIVE AliasLoaded(_, _, _)
AliasLoaded(st, loaded, amap) ==
    IF loaded = << >> THEN st
    ELSE AliasLoaded(AliasTable(st, Head(loaded), amap), Tail(loaded), amap)

\* the alias phase: the loop over what _load_data returned
AliasPhase(st, amap) == AliasLoaded(st, st.loaded, amap)

\* the Inputs phase of _execute_yaml_script
InputsPhase(st, inputs) ==
    AliasPhase(LoadData(st, [i \in 1..Len(inputs) |-> inputs[i].path]), AliasMap(inputs))

\* a faulty variant of RunTask: a name that is staged already is kept and
\* the new result goes under a second name
RunTaskKeepsOld(st, task) ==
    IF QueryOK(st.reg, task.sql)
    THEN [st EXCEPT
            !.calls = Append(@, [op |-> "query", sql |-> task.sql, ok |-> TRUE]),
            !.stage = Put(@, IF task.name \in DOMAIN @ THEN task.name \o "_2" ELSE task.name,
                          QueryResult(st.reg, task.sql)),
            !.log = Append(@, [level |-> "info", what |-> "task", item |-> task.name])]
    ELSE [st EXCEPT
            !.calls = Append(@, [op |-> "query", sql |-> task.sql, ok |-> FALSE]),
            !.log = Append(@, [level |-> "error", what |-> "task", item |-> task.name])]

\* one iteration of the Tasks phase
RunTask(st, task) ==
    IF QueryOK(st.reg, task.sql)
    THEN [st EXCEPT
            !.calls = Append(@, [op |-> "query", sql |-> task.sql, ok |-> TRUE]),
            !.stage = Put(@, task.name, QueryResult(st.reg, task.sql)),
            !.log = Append(@, [level |-> "info", what |-> "task", item |-> task.name])]
    ELSE [st EXCEPT
            !.calls = Append(@, [op |-> "query", sql |-> task.sql, ok |-> FALSE]),
            !.log = Append(@, [level |-> "error", what |-> "task", item |-> task.name])]

\* a faulty variant of TasksPhase: the first failing task ends the phase
RECURSIVE TasksPhaseAbortOnFailure(_, _)
TasksPhaseAbortOnFailure(st, tasks) ==
    IF tasks = << >> THEN st
    ELSE IF QueryOK(st.reg, Head(tasks).sql)
    THEN TasksPhaseAbortOnFailure(RunTask(st, Head(tasks)), Tail(tasks))
    ELSE RunTask(st, Head(tasks))

\* the Tasks phase of _execute_yaml_script
RECURSIVE TasksPhase(_, _)
TasksPhase(st, tasks) ==
    IF tasks = << >> THEN st ELSE TasksPhase(RunTask(st, Head(tasks)), Tail(tasks))

\* if "inputs" in config
InputsBlock(st, config) ==
    IF "inputs" \in config.keys THEN InputsPhase(st, config.inputs) ELSE st

\* if "tasks" in config
TasksBlock(st, config) ==
    IF "tasks" \in config.keys THEN TasksPhase(st, config.tasks) ELSE st

\* a faulty variant of ExportBlock: the export runs whenever the script has tasks
ExportBlockWithTasks(st, config, xlsxwriter) ==
    IF "tasks" \in config.keys THEN SaveToExcel(st, config.export.path, xlsxwriter) ELSE st

\* if "export" in config: config["export"]["path"] raises KeyError when the
\* block has no path, before _save_to_excel is called
ExportBlock(st, config, xlsxwriter) ==
    IF "export" \in config.keys
    THEN IF "path" \in config.export.keys
         THEN SaveToExcel(st, config.export.path, xlsxwriter)
         ELSE [st EXCEPT !.raised = "KeyError"]
    ELSE st

\* _execute_yaml_script(config)
ExecuteYamlScript(st, config, xlsxwriter) ==
    ExportBlock(TasksBlock(InputsBlock(st, config), config), config, xlsxwriter)

\* the except clause of _run_script_interactive: what the script raised is
\* logged and the prompt returns
ScriptErrorLogged(st) ==
    IF st.raised = ""
    THEN st
    ELSE [st EXCEPT
            !.log = Append(@, [level |-> "error", what |-> "script", item |-> st.raised]),
            !.raised = ""]

\* a faulty variant of SafeLoadOK: a file that can be read counts as parsed
SafeLoadReadable(file) == file.readable

\* whether open(path) and yaml.safe_load(f) return: the file can be read and
\* its whole text is well-formed YAML
SafeLoadOK(file) == file.readable /\ file.wellformed

\* what open() or yaml.safe_load raises otherwise
LoadError(file) == IF file.readable THEN "YAMLError" ELSE "OSError"

\* _run_script_interactive(parts): the file is opened and parsed, then executed
RunScriptInteractive(st, file, xlsxwriter) ==
    IF SafeLoadOK(file)
    THEN ScriptErrorLogged(ExecuteYamlScript(st, file.config, xlsxwriter))
    ELSE ScriptErrorLogged([st EXCEPT !.raised = LoadError(file)])

\* _init_db: a new in-memory database
InitDb(st) == [st EXCEPT !.reg = EmptyMap]

\* run_batch(config_path): a file that fails to load is logged and the run
\* returns; otherwise the database is set up and the script executed, and
\* what the script raises leaves run_batch
RunBatchJob(st, file, xlsxwriter) ==
    IF SafeLoadOK(file)
    THEN ExecuteYamlScript(InitDb(st), file.config, xlsxwriter)
    ELSE [st EXCEPT
            !.log = Append(@, [level |-> "error", what |-> "config", item |-> LoadError(file)])]

(***************************************************************************)
(* The direct rename command                                                *)
(***************************************************************************)
\* the key of the cache that old names, or old itself
ActualKey(cache, old) ==
    IF \E k \in DOMAIN cache : Lower(k) = Lower(old)
    THEN CHOOSE k \in DOMAIN cache : Lower(k) = Lower(old)
    ELSE old

\* if actual_key in self.schema_cache: the entry moves to new_name
MoveKey(cache, key, new) ==
    IF key \in DOMAIN cache THEN Put(Drop(cache, key), new, cache[key]) ELSE cache

\* _rename_table([".rename", old, new])
RenameTable(st, old, new) ==
    IF AlterOK(st, old, new)
    THEN [st EXCEPT
            !.reg = Renamed(@, old, new),
            !.calls = Append(@, [op |-> "rename", name |-> old, to |-> new, ok |-> TRUE,
                                 err |-> ""]),
            !.log = Append(@, [level |-> "info", what |-> "renamed", item |-> old]),
            !.cache = MoveKey(@, ActualKey(@, old), new)]
    ELSE [st EXCEPT
            !.calls = Append(@, [op |-> "rename", name |-> old, to |-> new, ok |-> FALSE,
                                 err |-> AlterError(st, old, new)]),
            !.log = Append(@, [level |-> "error", what |-> "rename", item |-> old])]

(***************************************************************************)
(* The interactive query and its staging prompt                             *)
(***************************************************************************)
\* a faulty variant of record_query: the three words are matched as written
RecordQueryCaseSensitive(rec, name, sql) ==
    IF \E w \in {"SHOW", "DESCRIBE", "PRAGMA"} : StartsWith(Strip(sql), w)
    THEN rec
    ELSE [rec EXCEPT !.transformations = Append(@, [name |-> name, sql |-> sql])]

\* SessionRecorder.record_query
record_query(rec, name, sql) ==
    IF \E w \in {"SHOW", "DESCRIBE", "PRAGMA"} : StartsWith(Upper(Strip(sql)), w)
    THEN rec
    ELSE [rec EXCEPT !.transformations = Append(@, [name |-> name, sql |-> sql])]

\* _execute_query(query) followed by _prompt_to_stage_results: name is the
\* sheet name typed at the prompt, "" when the user declines or types nothing
ExecuteQuery(st, sql, name) ==
    IF QueryOK(st.reg, sql)
    THEN IF QueryEmpty(st.reg, sql)
         THEN [st EXCEPT !.calls = Append(@, [op |-> "query", sql |-> sql, ok |-> TRUE])]
         ELSE IF name # ""
         THEN [st EXCEPT
                 !.calls = Append(@, [op |-> "query", sql |-> sql, ok |-> TRUE]),
                 !.stage = Put(@, name, QueryResult(st.reg, sql)),
                 !.rec = record_query(@, name, sql),
                 !.log = @ \o << [level |-> "info", what |-> "query", item |-> ""],
                                [level |-> "info", what |-> "staged", item |-> name] >>]
         ELSE [st EXCEPT
                 !.calls = Append(@, [op |-> "query", sql |-> sql, ok |-> TRUE]),
                 !.log = Append(@, [level |-> "info", what |-> "query", item |-> ""])]
    ELSE [st EXCEPT
            !.calls = Append(@, [op |-> "query", sql |-> sql, ok |-> FALSE]),
            !.log = Append(@, [level |-> "error", what |-> "sql", item |-> ""])]

\* SheetQL.HISTORY_MAX_LEN
HISTORY_MAX_LEN == 50

\* a faulty variant of Record: a full history drops its newest entry
RecordDropsNewest(hist, query) ==
    IF Len(hist) >= HISTORY_MAX_LEN
    THEN Append(SubSeq(hist, 1, Len(hist) - 1), query)
    ELSE Append(hist, query)

\* self.history.append(query) on deque(maxlen=HISTORY_MAX_LEN): a full deque
\* discards the entry at its other end
Record(hist, query) ==
    IF Len(hist) >= HISTORY_MAX_LEN THEN Append(Tail(hist), query) ELSE Append(hist, query)

\* the last lines of the loop body: the query is recorded, then executed
RunQuery(st, query, name) ==
    ExecuteQuery([st EXCEPT !.hist = Record(@, query)], query, name)

\* _export_results(): path is the save location the user gives, "" for none
ExportResults(st, path, xlsxwriter) ==
    IF DOMAIN st.stage = {}
    THEN [st EXCEPT !.log = Append(@, [level |-> "warning", what |-> "nothing", item |-> ""])]
    ELSE IF path # "" THEN SaveToExcel(st, path, xlsxwriter) ELSE st

(***************************************************************************)
(* What the user types: the bounded pools the commands draw from.          *)
(***************************************************************************)
\* the commands of one session
MaxOps == 2

Input(p, a) == [path |-> p, alias |-> a]

Task(n, q) == [name |-> n, sql |-> q]

\* the file selections of .load
Batches ==
    { <<"a.csv">>, <<"d/a.csv">>, <<"ab.csv", "a-b.csv">>, <<"m.csv", "a.csv">>,
      <<"a.csv", "a.txt", "ab.csv">>, <<"b.xlsx", "m.csv">>, <<"1.xlsx">> }

\* the inputs blocks of the scripts; alias "" is an input without alias
OneAliased == << Input("a.csv", "x") >>

InputLists ==
    { OneAliased,
      << Input("a-b.csv", "y") >>,
      << Input("ab.csv", ""), Input("a.csv", "x") >>,
      << Input("m.csv", "y"), Input("a.txt", "y"), Input("d/a.csv", "") >>,
      << Input("b.xlsx", "y"), Input("a.csv", "x") >>,
      << Input("a.csv", "x"), Input("a.csv", "y") >>,
      << Input("ab.csv", "x"), Input("a.csv", "y") >> }

\* the tasks blocks of the scripts
Restaged == << Task("t1", "SELECT * FROM x"), Task("t1", "SELECT * FROM a_csv") >>

TwoTasks == << Task("t1", "SELECT * FROM a_csv"), Task("t2", "SELECT * FROM x") >>

FailingFirst ==
    << Task("t1", "SELECT * FROM nosuch"), Task("t1", "SELECT * FROM x"),
       Task("t2", "SELECT * FROM a_b_csv") >>

TaskLists == {Restaged, TwoTasks, FailingFirst}

\* a parsed script: keys are the blocks it has, e the path of its export block
Script(keys, i, t, e) ==
    [keys |-> keys, inputs |-> i, tasks |-> t,
     export |-> [keys |-> {"path"}, path |-> e]]

\* the script with an export block that declares no path
Pathless(config) == [config EXCEPT !.export = [keys |-> {}, path |-> ""]]

\* the parsed scripts: any of the three blocks may be absent
Scripts ==
    {Script({}, << >>, << >>, "")}
      \cup {Script({"inputs"}, i, << >>, "") : i \in InputLists}
      \cup {Script({"tasks"}, << >>, t, "") : t \in TaskLists}
      \cup {Script({"export"}, << >>, << >>, e) : e \in ExportPaths}
      \cup {Script({"inputs", "tasks"}, i, FailingFirst, "") : i \in InputLists}
      \cup {Script({"inputs", "export"}, OneAliased, << >>, "out.xlsx")}
      \cup {Script({"tasks", "export"}, << >>, Restaged, e) : e \in ExportPaths}
      \cup {Pathless(Script({"tasks", "export"}, << >>, t, "")) : t \in {Restaged, TwoTasks}}
      \cup {Script({"inputs", "tasks", "export"}, OneAliased, TwoTasks, e) : e \in ExportPaths}

\* a script file: whether it can be opened, whether its text is well-formed
\* YAML, and the blocks its text declares
ScriptFile(readable, wellformed, config) ==
    [readable |-> readable, wellformed |-> wellformed, config |-> config]

\* a script with the three blocks, in a file that cannot be opened or that
\* has a syntax error after the blocks
Full == Script({"inputs", "tasks", "export"}, OneAliased, TwoTasks, "out.xlsx")

BrokenFiles == {ScriptFile(FALSE, TRUE, Full), ScriptFile(TRUE, FALSE, Full)}

ScriptFiles == {ScriptFile(TRUE, TRUE, config) : config \in Scripts} \cup BrokenFiles

RenameOlds == {"a_csv", "A_CSV", "x"}

RenameNews == {"x", "ab_csv"}

Queries == {"SELECT * FROM x;", "SELECT * FROM a_csv;"}

StageNames == {"t1", ""}

\* the keys of the script that generate_yaml builds: a list that is empty
\* gives no block
ScriptKeys(rec) ==
    (IF rec.inputs # << >> THEN {"inputs"} ELSE {})
      \cup (IF rec.transformations # << >> THEN {"tasks"} ELSE {})
      \cup (IF rec.exports # << >> THEN {"export"} ELSE {})

\* SessionRecorder.generate_yaml, as the script that yaml.safe_load reads
\* back from its text: the recorded inputs, the recorded queries as tasks,
\* the last export
GenerateYaml(rec) ==
    [keys |-> ScriptKeys(rec),
     inputs |-> rec.inputs,
     tasks |-> rec.transformations,
     export |-> IF rec.exports # << >>
                THEN [keys |-> {"path"}, path |-> rec.exports[Len(rec.exports)].path]
                ELSE [keys |-> {}, path |-> ""]]

(***************************************************************************)
(* The interactive loop: replay, meta-commands and the query buffer        *)
(***************************************************************************)
\* s.endswith(suf)
EndsWith(s, suf) == Len(suf) <= Len(s) /\ SubSeq(s, Len(s) - Len(suf) + 1, Len(s)) = suf

RECURSIVE WordsFrom(_, _, _)
WordsFrom(s, i, word) ==
    IF i > Len(s) THEN (IF word = "" THEN << >> ELSE << word >>)
    ELSE IF CharAt(s, i) = " "
    THEN (IF word = "" THEN << >> ELSE << word >>) \o WordsFrom(s, i + 1, "")
    ELSE WordsFrom(s, i + 1, word \o CharAt(s, i))

\* str.split(): the words between runs of blanks
Words(s) == WordsFrom(s, 1, "")

\* the digits of an integer literal after its sign
Unsigned(s) == IF Len(s) > 0 /\ CharAt(s, 1) \in {"+", "-"} THEN Tail(s) ELSE s

\* whether int(s) returns: blanks around, a sign, then decimal digits
IsInt(s) ==
    /\ Len(Unsigned(Strip(s))) > 0
    /\ CharsOf(Unsigned(Strip(s))) \subseteq CharsOf(Digits)

DigitValue(c) == (CHOOSE i \in 1..Len(Digits) : CharAt(Digits, i) = c) - 1

RECURSIVE Decimal(_, _)
Decimal(s, n) ==
    IF Len(s) = 0 THEN n ELSE Decimal(Tail(s), 10 * n + DigitValue(CharAt(s, 1)))

\* int(s)
IntOf(s) ==
    IF Len(Strip(s)) > 0 /\ CharAt(Strip(s), 1) = "-"
    THEN 0 - Decimal(Unsigned(Strip(s)), 0)
    ELSE Decimal(Unsigned(Strip(s)), 0)

\* a faulty variant of Replayed: the index counts from the newest entry
ReplayedFromNewest(st, idx, name) ==
    IF 1 <= idx /\ idx <= Len(st.hist)
    THEN ExecuteQuery(st, st.hist[Len(st.hist) + 1 - idx], name)
    ELSE st

\* if 1 <= idx <= len(self.history): self._execute_query(self.history[idx - 1])
Replayed(st, idx, name) ==
    IF 1 <= idx /\ idx <= Len(st.hist) THEN ExecuteQuery(st, st.hist[idx], name) ELSE st

\* a faulty variant of HandleHistoryRerun: an index past the end replays the last entry
HandleHistoryRerunClamped(st, cmd, name) ==
    IF IsInt(SubSeq(cmd, 2, Len(cmd))) /\ Len(st.hist) > 0 /\ IntOf(SubSeq(cmd, 2, Len(cmd))) >= 1
    THEN IF IntOf(SubSeq(cmd, 2, Len(cmd))) <= Len(st.hist)
         THEN ExecuteQuery(st, st.hist[IntOf(SubSeq(cmd, 2, Len(cmd)))], name)
         ELSE ExecuteQuery(st, st.hist[Len(st.hist)], name)
    ELSE st

\* _handle_history_rerun(cmd): what int() raises is swallowed
HandleHistoryRerun(st, cmd, name) ==
    IF IsInt(SubSeq(cmd, 2, Len(cmd)))
    THEN Replayed(st, IntOf(SubSeq(cmd, 2, Len(cmd))), name)
    ELSE st

\* the keys of the commands dict of _handle_meta_command
Commands ==
    {".exit", ".quit", ".help", ".tables", ".schema", ".history", ".load", ".export",
     ".dump", ".runscript", ".rename"}

\* _describe_table(parts)
DescribeTable(st, parts) ==
    IF Len(parts) = 2
    THEN IF DescribeOK(st.reg, parts[2])
         THEN [st EXCEPT !.calls = Append(@, [op |-> "describe", name |-> parts[2], ok |-> TRUE])]
         ELSE [st EXCEPT
                 !.calls = Append(@, [op |-> "describe", name |-> parts[2], ok |-> FALSE]),
                 !.log = Append(@, [level |-> "error", what |-> "schema", item |-> parts[2]])]
    ELSE st

\* _add_new_files(): paths are the files the user selects, << >> for none
AddNewFiles(st, paths) == IF paths # << >> THEN LoadData(st, paths) ELSE st

\* the script files on disk, by path
ScriptAt(path) ==
    IF path = "s.yaml"
    THEN ScriptFile(TRUE, TRUE, Script({"tasks"}, << >>, Restaged, ""))
    ELSE ScriptFile(FALSE, TRUE, Script({}, << >>, << >>, ""))

\* _run_script_interactive(parts) as the command hands it the words of the line
RunScriptCommand(st, parts, user) ==
    IF Len(parts) > 1
    THEN RunScriptInteractive(st, ScriptAt(parts[2]), user.xlsxwriter)
    ELSE [st EXCEPT !.log = Append(@, [level |-> "warning", what |-> "usage", item |-> ""])]

\* _dump_script(parts): the script goes to the named file, script.yaml by default
DumpScript(st, parts) ==
    [st EXCEPT !.log = Append(@, [level |-> "info", what |-> "dumped",
                                  item |-> IF Len(parts) > 1 THEN parts[2] ELSE "script.yaml"])]

\* commands[cmd](): .help, .tables and .history print and leave the session as it is
Dispatch(st, cmd, parts, user) ==
    CASE cmd \in {".exit", ".quit"} -> [st EXCEPT !.exit = TRUE]
      [] cmd = ".schema" -> DescribeTable(st, parts)
      [] cmd = ".load" -> AddNewFiles(st, user.paths)
      [] cmd = ".export" -> ExportResults(st, user.path, user.xlsxwriter)
      [] cmd = ".dump" -> DumpScript(st, parts)
      [] cmd = ".runscript" -> RunScriptCommand(st, parts, user)
      [] cmd = ".rename" -> IF Len(parts) = 3 THEN RenameTable(st, parts[2], parts[3]) ELSE st
      [] OTHER -> st

\* console.input("Export staged results? (y/n): ")
Asked(st) == [st EXCEPT !.calls = Append(@, [op |-> "prompt", what |-> "export"])]

\* the tail of _handle_meta_command: an exit with staged results asks once
ExitPrompt(st, cmd, user) ==
    IF st.exit /\ cmd \in {".exit", ".quit"} /\ DOMAIN st.stage # {}
    THEN IF StartsWith(Lower(user.answer), "y")
         THEN ExportResults(Asked(st), user.path, user.xlsxwriter)
         ELSE Asked(st)
    ELSE st

\* a faulty variant of HandleMetaCommand: an unknown command ends the session
HandleMetaCommandExitsOnUnknown(st, command_str, user) ==
    IF Lower(Words(command_str)[1]) \notin Commands
    THEN [st EXCEPT !.exit = TRUE]
    ELSE ExitPrompt(Dispatch(st, Lower(Words(command_str)[1]), Words(command_str), user),
                    Lower(Words(command_str)[1]), user)

\* _handle_meta_command(command_str); .exit of the result is what it returns
HandleMetaCommand(st, command_str, user) ==
    IF Lower(Words(command_str)[1]) \notin Commands
    THEN [st EXCEPT
            !.log = Append(@, [level |-> "warning", what |-> "unknown",
                               item |-> Lower(Words(command_str)[1])])]
    ELSE ExitPrompt(Dispatch(st, Lower(Words(command_str)[1]), Words(command_str), user),
                    Lower(Words(command_str)[1]), user)

\* if self._handle_meta_command(...): break; query_buffer = ""; continue
AfterMeta(st) == IF st.exit THEN st ELSE [st EXCEPT !.buf = ""]

\* a faulty variant of Buffered: a query is executed and left out of the history
BufferedUnrecorded(st, line, user) ==
    IF StartsWith(Lower(Strip(line)), ".")
    THEN AfterMeta(HandleMetaCommand(st, Strip(line), user))
    ELSE IF EndsWith(Strip(st.buf), ";")
    THEN [ExecuteQuery(st, Strip(st.buf), user.name) EXCEPT !.buf = ""]
    ELSE st

\* the loop body after query_buffer += line + " "
Buffered(st, line, user) ==
    IF StartsWith(Lower(Strip(line)), ".")
    THEN AfterMeta(HandleMetaCommand(st, Strip(line), user))
    ELSE IF EndsWith(Strip(st.buf), ";")
    THEN [RunQuery(st, Strip(st.buf), user.name) EXCEPT !.buf = ""]
    ELSE st

\* one pass of the loop of _run_interactive_loop with the line the user typed
LoopBody(st, line, user) ==
    IF StartsWith(Strip(line), "!")
    THEN [HandleHistoryRerun(st, Strip(line), user.name) EXCEPT !.buf = ""]
    ELSE Buffered([st EXCEPT !.buf = @ \o line \o " "], line, user)

\* one pass of the loop when the prompt raises KeyboardInterrupt or EOFError
Interrupted(st, user) == AfterMeta(HandleMetaCommand(st, ".exit", user))

(***************************************************************************)
(* The session                                                              *)
(***************************************************************************)
VARIABLES
    registry,         \* the catalog of db_connection: view name -> view
    schema_cache,     \* SheetQL.schema_cache: table name -> column names
    results_to_save,  \* SheetQL.results_to_save: sheet name -> frame
    recorder,         \* SheetQL.recorder
    calls,            \* the calls the last command made to the engine, the writer and the export prompt
    log,              \* the messages the last command logged
    last,             \* the last command: its name, its arguments, its result
    ops,              \* the commands handled so far
    history,          \* SheetQL.history
    query_buffer,     \* query_buffer of _run_interactive_loop
    running           \* whether the process is still running

vars == <<registry, schema_cache, results_to_save, recorder, calls, log, last, ops,
          history, query_buffer, running>>

\* the session as the handlers see it, with nothing called or logged yet
Session ==
    [reg |-> registry, cache |-> schema_cache, stage |-> results_to_save,
     rec |-> recorder, loaded |-> << >>, calls |-> << >>, log |-> << >>,
     frames |-> TRUE, raised |-> "", hist |-> history, buf |-> query_buffer,
     exit |-> FALSE]

\* the session on an engine that does or does not rename registered frames
OnEngine(frames) == [Session EXCEPT !.frames = frames]

\* the engines that the tables at hand can tell apart
FrameEngines(sheets) == IF sheets THEN BOOLEAN ELSE {TRUE}

\* whether a name of the catalog is a registered frame
IsFrame(reg, n) == Exists(reg, n) /\ reg[Entry(reg, n)].sheet # ""

\* whether a script loads a workbook
LoadsWorkbook(config) ==
    \E i \in 1..Len(config.inputs) : ExtOf(config.inputs[i].path) \in {".xlsx", ".xls"}

\* the session a handler leaves behind, while the session has commands left
Becomes(st, cmd, arg, ret) ==
    /\ ops < MaxOps
    /\ running
    /\ history' = st.hist
    /\ query_buffer' = st.buf
    /\ running' = ~st.exit
    /\ registry' = st.reg
    /\ schema_cache' = st.cache
    /\ results_to_save' = st.stage
    /\ recorder' = st.rec
    /\ calls' = st.calls
    /\ log' = st.log
    /\ last' = [cmd |-> cmd, arg |-> arg, ret |-> ret]
    /\ ops' = ops + 1

\* SheetQL.__init__ and _init_db
Init ==
    /\ registry = EmptyMap
    /\ schema_cache = EmptyMap
    /\ results_to_save = EmptyMap
    /\ recorder = NewRecorder
    /\ calls = << >>
    /\ log = << >>
    /\ last = [cmd |-> "init", arg |-> << >>, ret |-> << >>]
    /\ ops = 0
    /\ history = << >>
    /\ query_buffer = ""
    /\ running = TRUE

\* the session _load_data leaves behind, its result the tables it loaded
Loaded(st, paths) == Becomes(st, "load", paths, st.loaded)

\* .load: _add_new_files with the paths the user selects
Load ==
    \E paths \in Batches : Loaded(LoadData(Session, paths), paths)

\* .rename old new
Rename ==
    \E old \in RenameOlds, new \in RenameNews :
      \E frames \in FrameEngines(IsFrame(registry, old)) :
        Becomes(RenameTable(OnEngine(frames), old, new), "rename", <<old, new>>, << >>)

\* a query typed at the prompt, and the answer to the staging prompt
Query ==
    \E sql \in Queries, name \in StageNames :
        Becomes(RunQuery(Session, sql, name), "query", <<sql, name>>, << >>)

\* .export
Export ==
    \E path \in ExportPaths \cup {""}, xlsxwriter \in BOOLEAN :
        Becomes(ExportResults(Session, path, xlsxwriter), "export", <<path>>, << >>)

\* whether xlsxwriter is installed, which only a script that exports can tell
Engines(config) == IF "export" \in config.keys THEN BOOLEAN ELSE {TRUE}

\* how a script run is observed: a run whose file gave a script by its mode
\* and the script, a run whose file gave none as "unparsed"
Verb(file, mode) == IF file \in BrokenFiles THEN "unparsed" ELSE mode

Subject(file, mode) ==
    IF file \in BrokenFiles THEN [mode |-> mode, file |-> file] ELSE file.config

\* .runscript file
RunScript ==
    \E file \in ScriptFiles :
      \E xlsxwriter \in Engines(file.config),
         frames \in FrameEngines(LoadsWorkbook(file.config)) :
        Becomes(RunScriptInteractive(OnEngine(frames), file, xlsxwriter),
                Verb(file, "runscript"), Subject(file, "runscript"), << >>)

\* the session run_batch leaves behind when the process ends, its result
\* what left main() as an exception
Ended(st, file) ==
    /\ ops = 0
    /\ running
    /\ registry' = st.reg
    /\ schema_cache' = st.cache
    /\ results_to_save' = st.stage
    /\ recorder' = st.rec
    /\ calls' = st.calls
    /\ log' = st.log
    /\ last' = [cmd |-> Verb(file, "batch"), arg |-> Subject(file, "batch"), ret |-> st.raised]
    /\ ops' = ops + 1
    /\ history' = st.hist
    /\ query_buffer' = st.buf
    /\ running' = FALSE

\* main() with --run file: a new SheetQL, then run_batch
RunBatch ==
    \E file \in ScriptFiles :
      \E xlsxwriter \in Engines(file.config),
         frames \in FrameEngines(LoadsWorkbook(file.config)) :
        Ended(RunBatchJob(OnEngine(frames), file, xlsxwriter), file)

Next == Load \/ Rename \/ Query \/ Export \/ RunScript \/ RunBatch

Spec == Init /\ [][Next]_vars

(***************************************************************************)
(* The interactive loop, line by line.  The session starts after any      *)
(* number of queries that staged nothing: they fill the history and leave  *)
(* the rest of the session as run_interactive set it up.                   *)
(***************************************************************************)
\* the session of a new process
Fresh ==
    [reg |-> EmptyMap, cache |-> EmptyMap, stage |-> EmptyMap, rec |-> NewRecorder,
     loaded |-> << >>, calls |-> << >>, log |-> << >>, frames |-> TRUE, raised |-> "",
     hist |-> << >>, buf |-> "", exit |-> FALSE]

\* the queries typed before
Typed == << "SELECT * FROM a_csv;", "SELECT * FROM nosuch;", "show tables;" >>

\* a history of n queries typed in turn, starting at the k-th
History(n, k) == [i \in 1..n |-> Typed[((i + k) % Len(Typed)) + 1]]

Histories ==
    {History(n, k) : n \in {0, 2, HISTORY_MAX_LEN - 1, HISTORY_MAX_LEN}, k \in {0, 1}}

\* the lines typed at the prompt
Lines ==
    {"SELECT * FROM a_csv;", "SELECT * FROM nosuch;", " Show Tables;", "SELECT *",
     "FROM a_csv;", ".exit", ".QUIT now", ".help", ".bogus", ".export",
     ".rename a_csv x", ".runscript s.yaml", "!1", "!0", "!-1", "!2", "!50", "!51", "!x"}

\* the answers of a user: the sheet name at the staging prompt ("" declines),
\* the answer to the export prompt, the save path, the files selected, and
\* whether xlsxwriter is installed
User(name, answer, path) ==
    [name |-> name, answer |-> answer, path |-> path, paths |-> << >>, xlsxwriter |-> TRUE]

Users == {User("t1", "Yes", "out.xlsx"), User("", "n", "")}

\* run_interactive up to the loop, with the files selected at the start
LoopInit ==
    \E h \in Histories :
        /\ registry = LoadData(Fresh, <<"a.csv">>).reg
        /\ schema_cache = LoadData(Fresh, <<"a.csv">>).cache
        /\ results_to_save = EmptyMap
        /\ recorder = LoadData(Fresh, <<"a.csv">>).rec
        /\ calls = << >>
        /\ log = << >>
        /\ last = [cmd |-> "init", arg |-> << >>, ret |-> << >>]
        /\ ops = 0
        /\ history = h
        /\ query_buffer = ""
        /\ running = TRUE

\* a line typed at the prompt
Type ==
    \E line \in Lines, user \in Users :
        Becomes(LoopBody(Session, line, user), "line", [line |-> line, user |-> user],
                LoopBody(Session, line, user).exit)

\* Ctrl-C or end of input at the prompt
Interrupt ==
    \E user \in Users :
        Becomes(Interrupted(Session, user), "interrupt", [line |-> "", user |-> user],
                Interrupted(Session, user).exit)

LoopNext == Type \/ Interrupt

LoopSpec == LoopInit /\ [][LoopNext]_vars

(***************************************************************************)
(* Properties                                                               *)
(***************************************************************************)
\* the positions of the calls of one kind among the calls of the last command
CallsOf(cs, kinds) == {i \in 1..Len(cs) : cs[i].op \in kinds}

LoadOps == {"create", "register"}

\* the subsequence of the calls of one kind
Only(cs, kinds) == SelectSeq(cs, LAMBDA c : c.op \in kinds)

\* C1: every key of the schema cache names a table that exists in the
\* registry, and no table has two keys, after any sequence of loads, renames
\* and script runs
C1_CacheKeysAreTables ==
    /\ \A k \in DOMAIN schema_cache : Exists(registry, k)
    /\ \A j, k \in DOMAIN schema_cache :
          Resolve(registry, j) = Resolve(registry, k) => j = k

\* C2: a script run a second time, right after its first run, leaves the
\* table names, the cache keys and the staged names as the first run left them
C2_RerunSameEndState ==
    [][(last.cmd = "runscript" /\ last'.cmd = "runscript" /\ last'.arg = last.arg)
          => /\ DOMAIN registry' = DOMAIN registry
             /\ DOMAIN schema_cache' = DOMAIN schema_cache
             /\ DOMAIN results_to_save' = DOMAIN results_to_save]_vars

\* C3: after a script whose alias phase renamed table T to A, the cache has
\* the key A with the columns of the renamed table and no key T, and each of
\* the two names is a key exactly when it is a table
C3_AliasMovesCacheEntry ==
    last.cmd = "runscript" =>
        \A i \in CallsOf(calls, {"rename"}) :
            calls[i].ok =>
                LET T == calls[i].name
                    A == calls[i].to
                IN /\ A \in DOMAIN schema_cache
                   /\ Exists(registry, A)
                   /\ schema_cache[A] = registry[Entry(registry, A)].cols
                   /\ T \notin DOMAIN schema_cache
                   /\ ~Exists(registry, T)

\* C4: a rename onto a name that already has a table succeeds: after the
\* direct command the new name is the renamed table and the old name is gone,
\* and no rename of a script's alias phase fails because its target exists
C4_RenameOntoExistingSucceeds ==
    [][/\ (/\ last'.cmd = "rename"
           /\ Exists(registry, last'.arg[1])
           /\ Exists(registry, last'.arg[2])
           /\ Lower(last'.arg[1]) # Lower(last'.arg[2]))
          => /\ Exists(registry', last'.arg[2])
             /\ registry'[Entry(registry', last'.arg[2])]
                   = registry[Entry(registry, last'.arg[1])]
             /\ ~Exists(registry', last'.arg[1])
       /\ last'.cmd = "runscript"
          => \A i \in CallsOf(calls', {"rename"}) : calls'[i].err # "exists"]_vars

\* C5: a write of a non-empty stage empties the stage if the writer succeeds
\* and leaves the staged mapping as it was if the writer fails
C5_ExportClearsIffWritten ==
    \A i \in CallsOf(calls, {"write"}) :
        DOMAIN calls[i].data # {} =>
            /\ calls[i].ok = WriterOK(calls[i].path, calls[i].data, TRUE)
            /\ IF calls[i].ok
               THEN results_to_save = EmptyMap
               ELSE results_to_save = calls[i].data

\* a failed write after which the staged results are all still there
C5_Witness ==
    \E i \in CallsOf(calls, {"write"}) :
        /\ DOMAIN calls[i].data # {}
        /\ ~calls[i].ok
        /\ results_to_save = calls[i].data

\* what the Tasks phase of the last script left staged: what the writer was
\* given if the script exported, what is staged now otherwise
StagedByTasks(cs, stage) ==
    IF CallsOf(cs, {"write"}) = {} THEN stage
    ELSE cs[CHOOSE i \in CallsOf(cs, {"write"}) : TRUE].data

\* C6: the tasks of a script are executed in declared order, each of them
\* whatever became of the earlier ones; a name whose tasks all fail keeps what
\* it had staged, or stays unstaged; any other name has the result of the
\* last of its tasks that succeeded
C6_TasksInOrderFailuresIsolated ==
    [][(last'.cmd = "runscript" /\ "tasks" \in last'.arg.keys)
          => LET tasks == last'.arg.tasks
                 ran == Only(calls', {"query"})
                 after == StagedByTasks(calls', results_to_save')
                 Won(n) == {i \in 1..Len(tasks) : tasks[i].name = n /\ ran[i].ok}
                 Latest(S) == CHOOSE i \in S : \A j \in S : j <= i
             IN /\ Len(ran) = Len(tasks)
                /\ \A i \in 1..Len(tasks) :
                      /\ ran[i].sql = tasks[i].sql
                      /\ ran[i].ok = QueryOK(registry', tasks[i].sql)
                /\ \A n \in DOMAIN after \cup DOMAIN results_to_save
                              \cup {tasks[i].name : i \in 1..Len(tasks)} :
                      IF Won(n) = {}
                      THEN /\ n \in DOMAIN after <=> n \in DOMAIN results_to_save
                           /\ n \in DOMAIN after => after[n] = results_to_save[n]
                      ELSE /\ n \in DOMAIN after
                           /\ after[n] = QueryResult(registry', tasks[Latest(Won(n))].sql)]_vars

\* a script with a task that failed and left what its name had staged, and
\* a later task that succeeded and is staged
C6_Witness ==
    /\ last.cmd = "runscript"
    /\ "tasks" \in last.arg.keys
    /\ \E i, j \in 1..Len(last.arg.tasks) :
          /\ i < j
          /\ ~Only(calls, {"query"})[i].ok
          /\ \A k \in 1..Len(last.arg.tasks) :
                last.arg.tasks[k].name = last.arg.tasks[i].name
                   => ~Only(calls, {"query"})[k].ok
          /\ last.arg.tasks[i].name \in DOMAIN results_to_save
          /\ Only(calls, {"query"})[j].ok
          /\ last.arg.tasks[j].name \in DOMAIN results_to_save

\* the first position of a path in a batch
IndexOf(paths, p) == CHOOSE i \in 1..Len(paths) : paths[i] = p /\ \A j \in 1..(i - 1) : paths[j] # p

\* C7: a load handles every path of the batch, in order, whatever became of
\* the others: a readable file of a supported single-table format gets its
\* table, an unsupported or unreadable one gets a message and no table; the
\* result lists, in order, exactly the tables the load created
C7_LoadIsolatesFailures ==
    [][last'.cmd = "load"
          => LET paths == last'.arg
                 made == Only(calls', LoadOps)
                 good == SelectSeq(made, LAMBDA c : c.ok)
             IN /\ \A i \in 1..Len(paths) :
                      \/ \E c \in Range(made) : c.path = paths[i]
                      \/ \E m \in Range(log') :
                            /\ m.level \in {"error", "warning"}
                            /\ m.item \in {paths[i], ExtOf(paths[i])}
                /\ \A i \in 1..Len(paths) :
                      (paths[i] \in ExistingPaths /\ SuffixOf(ExtOf(paths[i])) # "")
                         => \E k \in DOMAIN registry' : registry'[k].path = paths[i]
                /\ \A i, j \in 1..Len(made) :
                      i < j => IndexOf(paths, made[i].path) <= IndexOf(paths, made[j].path)
                /\ last'.ret = [i \in 1..Len(good) |-> good[i].name]
                /\ \A n \in Range(last'.ret) : Exists(registry', n)
                /\ \A k \in DOMAIN registry' :
                      (k \notin DOMAIN registry \/ registry'[k] # registry[k])
                         => k \in Range(last'.ret)
                /\ \A k \in DOMAIN registry :
                      k \in DOMAIN registry' \/ \E n \in Range(last'.ret) : Lower(n) = Lower(k)]_vars

\* a load whose first path failed and whose later path gave a table
C7_Witness ==
    /\ last.cmd = "load"
    /\ Len(last.arg) > 1
    /\ \A k \in DOMAIN registry : registry[k].path # last.arg[1]
    /\ \E m \in Range(log) : m.level = "error" /\ m.item = last.arg[1]
    /\ last.ret # << >>

\* the phase a call of a script belongs to
PhaseOf(c) ==
    CASE c.op \in LoadOps \cup {"rename"} -> 1
      [] c.op = "query" -> 2
      [] c.op = "write" -> 3

\* C8: the calls of a script come phase by phase, Inputs before Tasks before
\* Export, and a block the script does not have does nothing: without inputs
\* nothing is loaded or renamed, without tasks nothing is queried or staged,
\* without export nothing is written
C8_PhasesInOrder ==
    [][last'.cmd = "runscript"
          => LET keys == last'.arg.keys
             IN /\ \A i, j \in 1..Len(calls') :
                      i < j => PhaseOf(calls'[i]) <= PhaseOf(calls'[j])
                /\ "inputs" \notin keys
                      => /\ \A i \in 1..Len(calls') : PhaseOf(calls'[i]) # 1
                         /\ registry' = registry
                         /\ schema_cache' = schema_cache
                         /\ recorder'.inputs = recorder.inputs
                /\ "tasks" \notin keys
                      => /\ \A i \in 1..Len(calls') : PhaseOf(calls'[i]) # 2
                         /\ StagedByTasks(calls', results_to_save') = results_to_save
                /\ "export" \notin keys
                      => /\ \A i \in 1..Len(calls') : PhaseOf(calls'[i]) # 3
                         /\ recorder'.exports = recorder.exports]_vars

\* a script with the three blocks that loaded, queried and wrote
C8_Witness ==
    /\ last.cmd = "runscript"
    /\ last.arg.keys = {"inputs", "tasks", "export"}
    /\ \E i, j, k \in 1..Len(calls) :
          PhaseOf(calls[i]) = 1 /\ PhaseOf(calls[j]) = 2 /\ PhaseOf(calls[k]) = 3

\* the inputs of the last script that gave one table each
SingleTableInputs ==
    {i \in Range(last.arg.inputs) :
        /\ SuffixOf(ExtOf(i.path)) # ""
        /\ \E c \in Range(calls) : c.op = "create" /\ c.ok /\ c.path = i.path}

\* C9: after a script, the table of a single-table input that declares an
\* alias is registered under the alias and not under the loader's name
C9_AliasedInputUnderAlias ==
    (last.cmd = "runscript" /\ "inputs" \in last.arg.keys) =>
        \A i \in SingleTableInputs :
            i.alias # "" =>
                /\ Exists(registry, i.alias)
                /\ registry[Entry(registry, i.alias)].path = i.path
                /\ ~Exists(registry, BaseOf(i.path) \o SuffixOf(ExtOf(i.path)))

\* C10: a script renames a table only to the alias of the input the table
\* was loaded from, and the table of an input without alias keeps the
\* loader's name
C10_AliasOfOwnInputOnly ==
    (last.cmd = "runscript" /\ "inputs" \in last.arg.keys) =>
        /\ \A n \in CallsOf(calls, {"rename"}) :
              calls[n].ok =>
                  /\ Exists(registry, calls[n].to)
                  /\ \E i \in Range(last.arg.inputs) :
                        /\ i.path = registry[Entry(registry, calls[n].to)].path
                        /\ i.alias # ""
                        /\ StartsWith(calls[n].to, i.alias)
        /\ \A i \in SingleTableInputs :
              i.alias = "" =>
                  LET t == BaseOf(i.path) \o SuffixOf(ExtOf(i.path))
                  IN Exists(registry, t) /\ registry[Entry(registry, t)].path = i.path

\* the inputs of the last script that are workbooks that were read
WorkbookInputs ==
    {i \in Range(last.arg.inputs) :
        ExtOf(i.path) \in {".xlsx", ".xls"} /\ i.path \in ExistingPaths}

\* C11: after a script, every sheet of a workbook input that declares alias A
\* is a table named A_<sheet>, the sheet name sanitized as the loader does
C11_SheetsUnderAliasedNames ==
    (last.cmd = "runscript" /\ "inputs" \in last.arg.keys) =>
        \A i \in WorkbookInputs :
            i.alias # "" =>
                \A k \in 1..Len(FileSheets(i.path)) :
                    LET sheet == FileSheets(i.path)[k].sheet
                        n == i.alias \o "_" \o Lower(Sanitize(sheet))
                    IN /\ Exists(registry, n)
                       /\ registry[Entry(registry, n)].path = i.path
                       /\ registry[Entry(registry, n)].sheet = sheet

\* whether an input matches a table by structure: the loader's name for the
\* file is the table's name, or is followed in it by _<sheet>
StructMatch(i, t) ==
    LET derived == BaseOf(i.path) \o SuffixOf(ExtOf(i.path))
    IN t = derived \/ StartsWith(t, derived \o "_")

\* the positions of the aliased inputs of the last script that match a table
Matching(t) ==
    {k \in 1..Len(last.arg.inputs) :
        last.arg.inputs[k].alias # "" /\ StructMatch(last.arg.inputs[k], t)}

\* C12: every rename a script attempts on a table that aliased inputs match,
\* whether it succeeds or fails, is to the name the first of these inputs
\* in the order of the input list gives it
C12_FirstMatchDecides ==
    (last.cmd = "runscript" /\ "inputs" \in last.arg.keys) =>
        \A n \in CallsOf(calls, {"rename"}) :
            Matching(calls[n].name) # {} =>
                LET k == CHOOSE k \in Matching(calls[n].name) :
                             \A j \in Matching(calls[n].name) : k <= j
                    alias == last.arg.inputs[k].alias
                IN calls[n].to = alias \/ StartsWith(calls[n].to, alias \o "_")

\* C13: after a script, a table whose alias rename the engine refused is
\* still in the registry under its name and still has its columns in the
\* cache, and the Tasks and Export phases of the script ran
C13_FailedAliasKeepsName ==
    (last.cmd = "runscript" /\ "inputs" \in last.arg.keys) =>
        \A n \in CallsOf(calls, {"rename"}) :
            (~calls[n].ok /\ calls[n].err # "missing") =>
                /\ Exists(registry, calls[n].name)
                /\ calls[n].name \in DOMAIN schema_cache
                /\ schema_cache[calls[n].name]
                      = registry[Entry(registry, calls[n].name)].cols
                /\ "tasks" \in last.arg.keys
                      => Len(Only(calls, {"query"})) = Len(last.arg.tasks)
                /\ "export" \in last.arg.keys => CallsOf(calls, {"write"}) # {}

\* C14: a direct rename that the engine performs takes the old name out of the
\* registry and the cache and puts the new name into both, the new name
\* showing the same table and cached with the columns the old name had; a
\* direct rename that the engine refuses leaves registry and cache as they were
C14_DirectRenameMovesBoth ==
    [][last'.cmd = "rename"
          => LET old == last'.arg[1]
                 new == last'.arg[2]
             IN IF calls'[1].ok
                THEN /\ ~Exists(registry', old)
                     /\ Exists(registry', new)
                     /\ registry'[Entry(registry', new)] = registry[Entry(registry, old)]
                     /\ \A k \in DOMAIN schema_cache' : Lower(k) # Lower(old)
                     /\ new \in DOMAIN schema_cache'
                     /\ schema_cache'[new] = registry[Entry(registry, old)].cols
                ELSE /\ registry' = registry
                     /\ schema_cache' = schema_cache]_vars

\* C15: after a load, every table of its result is a key of the cache with
\* the columns the table has now, and is the only key for that table
C15_LoadedTablesCached ==
    last.cmd = "load" =>
        \A n \in Range(last.ret) :
            /\ Exists(registry, n)
            /\ n \in DOMAIN schema_cache
            /\ schema_cache[n] = registry[Entry(registry, n)].cols
            /\ \A k \in DOMAIN schema_cache : Lower(k) = Lower(n) => k = n

\* C16: the tables the recorder has seen loaded from two different files
\* have different names, and so have the sheets one command registered
C16_DistinctFilesDistinctNames ==
    /\ \A i, j \in 1..Len(recorder.inputs) :
          recorder.inputs[i].path # recorder.inputs[j].path
             => recorder.inputs[i].alias # recorder.inputs[j].alias
    /\ \A i, j \in CallsOf(calls, {"register"}) :
          (i # j /\ calls[i].path = calls[j].path) => calls[i].name # calls[j].name

\* the names a command was given to stage under: the sheet name typed after a
\* query that returned, the names of the tasks of a script that returned
GivenNames(l, cs) ==
    CASE l.cmd = "query" -> IF cs[1].ok /\ l.arg[2] # "" THEN {l.arg[2]} ELSE {}
      [] l.cmd \in {"runscript", "batch"} ->
            {l.arg.tasks[i].name : i \in {j \in 1..Len(l.arg.tasks) : Only(cs, {"query"})[j].ok}}
      [] OTHER -> {}

\* C17: a command leaves staged what was staged before it together with the
\* names it was given, or nothing if it exported with success; a name given
\* again replaces its entry and the number of entries stays
C17_StageOnlyGivenNames ==
    [][LET given == GivenNames(last', calls')
           written == \E i \in CallsOf(calls', {"write"}) : calls'[i].ok
       IN /\ DOMAIN results_to_save' \subseteq DOMAIN results_to_save \cup given
          /\ IF written
             THEN DOMAIN results_to_save' = {}
             ELSE DOMAIN results_to_save' = DOMAIN results_to_save \cup given
          /\ (~written /\ given # {} /\ given \subseteq DOMAIN results_to_save)
                => Cardinality(DOMAIN results_to_save')
                      = Cardinality(DOMAIN results_to_save)
          /\ (last'.cmd = "query" /\ given # {})
                => results_to_save'[last'.arg[2]] = QueryResult(registry', last'.arg[1])]_vars

\* a script that staged twice under one name and left one entry, the later
C17_Witness ==
    /\ last.cmd = "runscript"
    /\ "tasks" \in last.arg.keys
    /\ \E i, j \in 1..Len(last.arg.tasks) :
          /\ i < j
          /\ last.arg.tasks[i].name = last.arg.tasks[j].name
          /\ Only(calls, {"query"})[i].ok
          /\ Only(calls, {"query"})[j].ok
          /\ DOMAIN results_to_save = {last.arg.tasks[j].name}
          /\ results_to_save[last.arg.tasks[j].name]
                = QueryResult(registry, last.arg.tasks[j].sql)
          /\ QueryResult(registry, last.arg.tasks[i].sql)
                # QueryResult(registry, last.arg.tasks[j].sql)

\* C18: the Export phase of a script that finds nothing staged does nothing:
\* the writer is not called with an empty Stage, so that nothing is written
\* and no export is recorded
C18_EmptyStageNoExport ==
    last.cmd = "runscript" =>
        \A i \in CallsOf(calls, {"write"}) : DOMAIN calls[i].data # {}

\* C19: a script whose export block declares no path writes what its tasks
\* staged to the default file name, and the run reports no script error
C19_MissingPathUsesDefault ==
    (/\ last.cmd = "runscript"
     /\ "export" \in last.arg.keys
     /\ "path" \notin last.arg.export.keys
     /\ \E i \in CallsOf(calls, {"query"}) : calls[i].ok) =>
        /\ \E i \in CallsOf(calls, {"write"}) :
              /\ calls[i].path = DEFAULT_EXPORT_FILENAME
              /\ DOMAIN calls[i].data # {}
        /\ \A i \in 1..Len(log) : log[i].what # "script"

\* C20: a script file that cannot be read or parsed executes nothing, at the
\* prompt and in batch mode: no call reaches the engine or the writer, and
\* the registry, the schema cache, the Stage and the recorder stay as they were
C20_UnparsedScriptRunsNothing ==
    [][(last'.cmd = "unparsed" /\ last'.arg.mode \in {"runscript", "batch"})
          => /\ calls' = << >>
             /\ registry' = registry
             /\ schema_cache' = schema_cache
             /\ results_to_save' = results_to_save
             /\ recorder' = recorder]_vars

\* a session with a table, a staged result and a recorded input, after a
\* .runscript on a file with a syntax error whose text declares inputs that
\* exist, tasks and an export
C20_Witness ==
    /\ last.cmd = "unparsed"
    /\ last.arg.mode = "runscript"
    /\ last.arg.file.readable
    /\ ~last.arg.file.wellformed
    /\ {"inputs", "tasks", "export"} \subseteq last.arg.file.config.keys
    /\ \E i \in 1..Len(last.arg.file.config.inputs) :
          last.arg.file.config.inputs[i].path \in ExistingPaths
    /\ DOMAIN registry # {}
    /\ DOMAIN results_to_save # {}
    /\ \E i \in 1..Len(log) : log[i].level = "error" /\ log[i].what = "script"

\* whether a line is taken as a replay, or else as a meta-command
ReplayLine(line) == StartsWith(Strip(line), "!")

MetaLine(line) == ~ReplayLine(line) /\ StartsWith(Lower(Strip(line)), ".")

\* the text typed so far once the line is added to it
TextWith(buf, line) == Strip(buf \o line \o " ")

\* whether a line completes a query
QueryLine(buf, line) ==
    ~ReplayLine(line) /\ ~MetaLine(line) /\ EndsWith(TextWith(buf, line), ";")

\* C21: the history never holds more than HISTORY_MAX_LEN entries; a query
\* recorded into a full history removes the oldest entry and no other, a query
\* recorded otherwise removes none, and the query is appended whether or not
\* the history holds it already
C21_HistoryBoundedFifo ==
    [][/\ Len(history') <= HISTORY_MAX_LEN
       /\ (last'.cmd = "line" /\ QueryLine(query_buffer, last'.arg.line))
            => history' = (IF Len(history) = HISTORY_MAX_LEN THEN Tail(history) ELSE history)
                             \o << TextWith(query_buffer, last'.arg.line) >>]_vars

\* a full history whose two newest entries are one query typed twice: the
\* second was recorded into a full history
C21_Witness ==
    /\ last.cmd = "line"
    /\ ops = 2
    /\ Len(history) = HISTORY_MAX_LEN
    /\ history[HISTORY_MAX_LEN] = "Show Tables;"
    /\ history[HISTORY_MAX_LEN - 1] = "Show Tables;"

\* the queries the last command sent to the engine
QueriesRun(cs) == [i \in 1..Len(Only(cs, {"query"})) |-> Only(cs, {"query"})[i].sql]

\* C22: the replay !i of a position i of the history executes one query, the
\* entry stored at position i, and no other
C22_ReplayRunsStoredEntry ==
    [][\A i \in 1..Len(history) :
          (last'.cmd = "line" /\ Strip(last'.arg.line) = "!" \o ToString(i))
             => QueriesRun(calls') = << history[i] >>]_vars

\* the replay of the second of two different entries, which ran and was staged
C22_Witness ==
    /\ last.cmd = "line"
    /\ last.arg.line = "!2"
    /\ Len(history) >= 2
    /\ history[1] # history[2]
    /\ QueriesRun(calls) = << history[2] >>
    /\ calls[1].ok
    /\ DOMAIN results_to_save = {last.arg.user.name}

\* C23: the replay !i of a position i of the history records the replayed
\* query again: the history ends with it afterwards, and a full history has
\* lost its oldest entry
C23_ReplayIsRecorded ==
    [][\A i \in 1..Len(history) :
          (last'.cmd = "line" /\ Strip(last'.arg.line) = "!" \o ToString(i))
             => history' = (IF Len(history) = HISTORY_MAX_LEN THEN Tail(history) ELSE history)
                              \o << history[i] >>]_vars

\* C24: the replay of an index below 1 or above the length of the history,
\* an empty history included, does nothing: no query is executed, and the
\* history, the Stage, the registry and the recorder stay as they were
C24_ReplayOutOfRangeNoOp ==
    [][\A i \in (0 - 1)..(HISTORY_MAX_LEN + 1) :
          (/\ last'.cmd = "line"
           /\ Strip(last'.arg.line) = "!" \o ToString(i)
           /\ (i < 1 \/ i > Len(history)))
             => /\ calls' = << >>
                /\ history' = history
                /\ results_to_save' = results_to_save
                /\ registry' = registry
                /\ recorder' = recorder]_vars

\* the replay !51 on a full history, by a user who would have staged the result
C24_Witness ==
    /\ last.cmd = "line"
    /\ last.arg.line = "!51"
    /\ last.arg.user.name # ""
    /\ Len(history) = HISTORY_MAX_LEN
    /\ calls = << >>

\* whether the last command logged a failure message about an item
Reported(what, item) ==
    \E j \in 1..Len(log) :
        log[j].level \in {"error", "warning"} /\ log[j].what \in what /\ log[j].item = item

\* C25: every failure of one item is reported with a message that names the
\* item: a file that failed to load by its path, a table that an alias or a
\* direct rename failed to rename by its name, a failed export by a message
C25_FailuresAreReported ==
    /\ \A i \in CallsOf(calls, {"create"}) :
          ~calls[i].ok => Reported({"load"}, calls[i].path)
    /\ \A i \in CallsOf(calls, {"rename"}) :
          ~calls[i].ok => Reported({"rename", "alias"}, calls[i].name)
    /\ \A i \in CallsOf(calls, {"write"}) :
          ~calls[i].ok => \E j \in 1..Len(log) : log[j].level = "error" /\ log[j].what = "save"

\* what the Inputs and Tasks phases of a script stage in a new session
StagedAfresh(config) == TasksBlock(InputsBlock(Fresh, config), config).stage

\* C26: the script generated from the recorder stages, in a new session, the
\* names the recorded session staged; while nothing was exported these are
\* the names of the Stage
C26_GeneratedScriptEquivalent ==
    recorder.exports = << >> =>
        DOMAIN StagedAfresh(GenerateYaml(recorder)) = DOMAIN results_to_save

\* whether a sequence starts with another
Extends(new, old) == Len(old) <= Len(new) /\ SubSeq(new, 1, Len(old)) = old

\* whether a query text, trimmed and read without regard to case, starts
\* with one of the introspection words
Introspection(sql) ==
    \E w \in {"show", "describe", "pragma"} : StartsWith(Lower(Strip(sql)), w)

\* the names and queries the last command staged at the staging prompt
StagedAtPrompt(cs, lg) ==
    IF \E j \in 1..Len(lg) : lg[j].what = "staged"
    THEN << [name |-> lg[CHOOSE j \in 1..Len(lg) : lg[j].what = "staged"].item,
             sql |-> Only(cs, {"query"})[1].sql] >>
    ELSE << >>

\* C27: a result staged at the prompt adds one record {name, sql} to the
\* transformations, unless the query is an introspection statement, which
\* adds none; the list never holds such a statement, and no command removes
\* or rewrites a record of the inputs, the transformations or the exports
C27_NoIntrospectionRecorded ==
    [][/\ Extends(recorder'.inputs, recorder.inputs)
       /\ Extends(recorder'.exports, recorder.exports)
       /\ recorder'.transformations
             = recorder.transformations
                 \o SelectSeq(StagedAtPrompt(calls', log'), LAMBDA t : ~Introspection(t.sql))
       /\ \A i \in 1..Len(recorder'.transformations) :
             ~Introspection(recorder'.transformations[i].sql)]_vars

\* the table list staged under a name and left out of the transformations,
\* after a query that was recorded
C27_Witness ==
    /\ last.cmd = "line"
    /\ last.arg.line = " Show Tables;"
    /\ last.arg.user.name \in DOMAIN results_to_save
    /\ results_to_save[last.arg.user.name] = TableList
    /\ Len(recorder.transformations) = 1
    /\ recorder.transformations[1].sql = "SELECT * FROM a_csv;"

\* the command word of a line, or of the interrupt that stands for .exit
CommandOf(l) ==
    IF l.cmd = "interrupt" THEN ".exit" ELSE Lower(Words(Strip(l.arg.line))[1])

\* whether a step handled a meta-command
MetaStep(l) == l.cmd = "interrupt" \/ (l.cmd = "line" /\ MetaLine(l.arg.line))

\* C28: a meta-command reports termination for .exit and .quit, and for an
\* interrupt, and for nothing else; an exit with staged results asks once
\* whether to export and exports if the answer is yes, an exit without them
\* and every other command ask nothing; the session ends when termination is
\* reported and only then
C28_OnlyExitTerminates ==
    [][/\ MetaStep(last') =>
            /\ last'.ret = (CommandOf(last') \in {".exit", ".quit"})
            /\ Len(Only(calls', {"prompt"}))
                  = (IF CommandOf(last') \in {".exit", ".quit"} /\ DOMAIN results_to_save # {}
                     THEN 1 ELSE 0)
            /\ (CommandOf(last') \in {".exit", ".quit"} /\ DOMAIN results_to_save # {})
                  => IF StartsWith(Lower(last'.arg.user.answer), "y")
                     THEN last'.arg.user.path # ""
                            => \E i \in CallsOf(calls', {"write"}) :
                                  /\ calls'[i].path = last'.arg.user.path
                                  /\ calls'[i].data = results_to_save
                     ELSE CallsOf(calls', {"write"}) = {}
       /\ last'.cmd \in {"line", "interrupt"} =>
            /\ running' = ~last'.ret
            /\ last'.ret => MetaStep(last')]_vars

\* .QUIT with a staged result: asked once, answered yes, exported, ended
C28_Witness ==
    /\ last.cmd = "line"
    /\ last.arg.line = ".QUIT now"
    /\ last.ret
    /\ ~running
    /\ Len(Only(calls, {"prompt"})) = 1
    /\ \E i \in CallsOf(calls, {"write"}) : calls[i].ok /\ DOMAIN calls[i].data # {}
    /\ DOMAIN results_to_save = {}

\* the last n entries of a sequence
Newest(s, n) == SubSeq(s, Len(s) - n + 1, Len(s))

\* C29: a line that completes a query puts the query into the history once,
\* as its newest entry, and executes it once, whether or not it succeeds; a
\* meta-command, a replay and an interrupt leave the history as it is; after
\* a query, a meta-command or a replay the query buffer is empty, and a line
\* that completes nothing is kept in it and executes nothing
C29_QueriesRecordedOnce ==
    [][/\ (last'.cmd = "line" /\ QueryLine(query_buffer, last'.arg.line)) =>
            /\ Len(history') = (IF Len(history) = HISTORY_MAX_LEN
                                THEN HISTORY_MAX_LEN ELSE Len(history) + 1)
            /\ history'[Len(history')] = TextWith(query_buffer, last'.arg.line)
            /\ SubSeq(history', 1, Len(history') - 1) = Newest(history, Len(history') - 1)
            /\ QueriesRun(calls') = << TextWith(query_buffer, last'.arg.line) >>
            /\ query_buffer' = ""
       /\ (last'.cmd = "line" /\ ~QueryLine(query_buffer, last'.arg.line)) =>
            /\ history' = history
            /\ IF ReplayLine(last'.arg.line) \/ MetaLine(last'.arg.line)
               THEN running' => query_buffer' = ""
               ELSE /\ query_buffer' = query_buffer \o last'.arg.line \o " "
                    /\ calls' = << >>
       /\ last'.cmd = "interrupt" => history' = history]_vars

\* a query that failed, typed into an empty history after a line that was
\* not recorded: it is the one entry, and the buffer is empty
C29_Witness ==
    /\ last.cmd = "line"
    /\ ops = 2
    /\ last.arg.line = "SELECT * FROM nosuch;"
    /\ QueriesRun(calls) = << "SELECT * FROM nosuch;" >>
    /\ ~calls[1].ok
    /\ history = << "SELECT * FROM nosuch;" >>
    /\ query_buffer = ""
=============================================================================
